---- MODULE Spec2Model ----
(***************************************************************************)
(* school-grader: the timeout guard (test_case.timeout), the execution     *)
(* harness (FileTestCase.runTest) and the equality strategies              *)
(* (equality.py).                                                          *)
(*                                                                         *)
(* Strings are sequences of one-character strings.  The main thread is a   *)
(* program counter pc over the statements of timeout.inner and of          *)
(* exec_test; every threading.Timer is a thread of its own.                *)
(* _thread.interrupt_main() only trips the interpreter's signal flag       *)
(* (pending); KeyboardInterrupt is raised in the main thread at one of its *)
(* later check points (Deliver).                                           *)
(***************************************************************************)
EXTENDS Integers, Sequences, FiniteSets, TLC

VARIABLES
    run,            \* number of test runs started (index of the current guarded call)
    pc,             \* position of the main thread
    exc,            \* exception in flight in the main thread ("none": no exception)
    tc,             \* the FileTestCase being run: _timeout_time, _mock_input, _expected_output
    file_present,   \* whether <_file_name>.py exists in _dirname
    queue,          \* the deque of override_input
    reads,          \* what fake_input returned so far in this run
    fake_out,       \* text written to the patched sys.stdout (StringIO)
    output,         \* local `output` of exec_test (list of lines)
    counted,        \* the line-count check of this run was made
    compared,       \* number of per-line comparisons made in this run
    unit_raised,    \* what the loaded code unit itself raised in this run
    sys_stdout,     \* the object bound to sys.stdout
    builtins_input, \* the object bound to builtins.input
    saved,          \* originals remembered by the two patch() context managers
    before,         \* sys.stdout / builtins.input right before the current run started
    timer,          \* per call: state of its threading.Timer thread
    finished,       \* per call: Timer.finished event (set by cancel() or at the end of run())
    pending,        \* calls whose timer tripped the signal flag, not yet handled
    outcome,        \* how the guarded call of this run ended ("none": it has not)
    fired_in,       \* where the main thread was when this run's timer called interrupt_main
    hits,           \* interrupts raised in this run: "own" timer's, an earlier ("stale") timer's
    eq_strategy,    \* equality strategy under test
    eq_actual,      \* value_to_test
    eq_built,       \* result of building the strategy object
    eq_pair,        \* pair produced by alter_expected_and_value_to_test
    eq_verdict      \* result of validate

harness_vars == <<run, pc, exc, tc, file_present, queue, reads, fake_out, output, counted,
                  compared, unit_raised, sys_stdout, builtins_input, saved, before,
                  timer, finished, pending, outcome, fired_in, hits>>
eq_vars == <<eq_strategy, eq_actual, eq_built, eq_pair, eq_verdict>>
vars == <<harness_vars, eq_vars>>

---------------------------------------------------------------------------
(* Bounds *)

MaxRuns == 2
MaxInputs == 2
MaxLines == 2
MaxLen == 3
MaxCombLen == 2
MaxSteps == 2
MaxLevLen == 3
MaxDistance == 2
MaxNumLen == 3

---------------------------------------------------------------------------
(* Strings *)

Chars == {"A", "a", " "}
Whitespace == {" ", "\n"}

RECURSIVE SeqsUpTo(_, _)
SeqsUpTo(S, n) ==
    IF n = 0 THEN {<<>>}
    ELSE LET shorter == SeqsUpTo(S, n - 1)
         IN  shorter \cup {Append(s, x) : s \in shorter, x \in S}

Strings(n) == SeqsUpTo(Chars, n)

\* str.lower()
Lower(s) == [i \in 1..Len(s) |-> IF s[i] = "A" THEN "a" ELSE s[i]]

\* re.sub(r"\s+", "", s)
IsSpace(c) == c \in Whitespace
RemoveWhitespace(s) == SelectSeq(s, LAMBDA c : ~IsSpace(c))

\* `sub in s`: leftmost search for an occurrence of sub in s
RECURSIVE FindFrom(_, _, _)
FindFrom(sub, s, i) ==
    IF i + Len(sub) - 1 > Len(s) THEN 0
    ELSE IF SubSeq(s, i, i + Len(sub) - 1) = sub THEN i
    ELSE FindFrom(sub, s, i + 1)

StrIn(sub, s) == FindFrom(sub, s, 1) # 0

\* str.strip()
RECURSIVE LStrip(_)
LStrip(s) == IF s # <<>> /\ IsSpace(Head(s)) THEN LStrip(Tail(s)) ELSE s
RECURSIVE RStrip(_)
RStrip(s) == IF s # <<>> /\ IsSpace(s[Len(s)]) THEN RStrip(SubSeq(s, 1, Len(s) - 1)) ELSE s
Strip(s) == RStrip(LStrip(s))

\* str.splitlines(): lines end at "\n"; no empty last line is produced
RECURSIVE SplitFrom(_, _, _)
SplitFrom(s, cur, acc) ==
    IF s = <<>> THEN (IF cur = <<>> THEN acc ELSE Append(acc, cur))
    ELSE IF Head(s) = "\n" THEN SplitFrom(Tail(s), <<>>, Append(acc, cur))
    ELSE SplitFrom(Tail(s), Append(cur, Head(s)), acc)

SplitLines(s) == SplitFrom(s, <<>>, <<>>)

---------------------------------------------------------------------------
(* Equality strategies (equality.py) *)

\* subclasses of Equal: they have alter_expected_and_value_to_test
EqualKinds == {"CaseInsensitiveStringEquality", "WhiteSpaceInsensitiveEquality",
               "ContainsEquality"}
\* Equality subclasses that are not Equal
AlmostKinds == {"AlmostEqualString"}
\* a class object handed over in place of an instance of the class
ClassObjects == {"type[CaseInsensitiveStringEquality]"}
\* what a caller can list in CombineEqualities(*equalities): instances of the
\* strategies, named by their class, or a class object
StepKinds == EqualKinds \cup AlmostKinds \cup ClassObjects

\* isinstance(equality, Equal): true of the instances of Equal's subclasses only
IsEqual(step) == step \in EqualKinds

\* ContainsEquality._find_largest_substring: table[i][j] is the length of the
\* common run that ends at word[i], target[j]
RECURSIVE Table(_, _, _, _)
Table(word, target, i, j) ==
    IF i = 0 \/ j = 0 THEN 0
    ELSE IF word[i] = target[j] THEN Table(word, target, i - 1, j - 1) + 1
    ELSE 0

\* the two nested loops, cell k of the row-major scan; best = <<max_length, end_index>>
RECURSIVE ScanTable(_, _, _, _)
ScanTable(word, target, k, best) ==
    IF k > Len(word) * Len(target) THEN best
    ELSE LET i == ((k - 1) \div Len(target)) + 1
             j == ((k - 1) % Len(target)) + 1
             t == Table(word, target, i, j)
         IN  ScanTable(word, target, k + 1, IF t > best[1] THEN <<t, i>> ELSE best)

Mut_find_largest_substring(word, target) == target

find_largest_substring(word, target) ==
    LET best == ScanTable(word, target, 1, <<0, 0>>)
    IN  SubSeq(word, best[2] - best[1] + 1, best[2])

\* alter_expected_and_value_to_test of the three Equal subclasses
AlterContains(expected, value_to_test) ==
    IF StrIn(expected, value_to_test) THEN <<expected, expected>>
    ELSE <<expected, find_largest_substring(value_to_test, expected)>>

Alter(step, expected, value_to_test) ==
    CASE step = "CaseInsensitiveStringEquality" -> <<Lower(expected), Lower(value_to_test)>>
      [] step = "WhiteSpaceInsensitiveEquality" ->
            <<RemoveWhitespace(expected), RemoveWhitespace(value_to_test)>>
      [] step = "ContainsEquality" -> AlterContains(expected, value_to_test)

\* the loop taking the equalities last to first
RECURSIVE Mut_CombinedReversed(_, _, _, _)
Mut_CombinedReversed(equalities, i, expected, value_to_test) ==
    IF i > Len(equalities)
    THEN [raised |-> "none", pair |-> <<expected, value_to_test>>]
    ELSE LET step == equalities[Len(equalities) + 1 - i]
         IN  IF ~IsEqual(step)
             THEN [raised |-> "TypeError", pair |-> <<expected, value_to_test>>]
             ELSE LET p == Alter(step, expected, value_to_test)
                  IN  Mut_CombinedReversed(equalities, i + 1, p[1], p[2])

\* the loop passing over a step that is not an Equal
RECURSIVE Mut_CombinedSkipsNonEqual(_, _, _, _)
Mut_CombinedSkipsNonEqual(equalities, i, expected, value_to_test) ==
    IF i > Len(equalities)
    THEN [raised |-> "none", pair |-> <<expected, value_to_test>>]
    ELSE IF ~IsEqual(equalities[i])
    THEN Mut_CombinedSkipsNonEqual(equalities, i + 1, expected, value_to_test)
    ELSE LET p == Alter(equalities[i], expected, value_to_test)
         IN  Mut_CombinedSkipsNonEqual(equalities, i + 1, p[1], p[2])

\* CombinedEquality.alter_expected_and_value_to_test: the loop over equalities,
\* at step i with the pair altered so far
RECURSIVE CombinedLoop(_, _, _, _)
CombinedLoop(equalities, i, expected, value_to_test) ==
    IF i > Len(equalities)
    THEN [raised |-> "none", pair |-> <<expected, value_to_test>>]
    ELSE IF ~IsEqual(equalities[i])
    THEN [raised |-> "TypeError", pair |-> <<expected, value_to_test>>]
    ELSE LET p == Alter(equalities[i], expected, value_to_test)
         IN  CombinedLoop(equalities, i + 1, p[1], p[2])

CombinedAlter(equalities, expected, value_to_test) ==
    CombinedLoop(equalities, 1, expected, value_to_test)

Min3(x, y, z) ==
    IF x <= y /\ x <= z THEN x ELSE IF y <= z THEN y ELSE z

\* the distance computed without the insertion case
RECURSIVE Mut_Matrix(_, _, _, _)
Mut_Matrix(s1, s2, i, j) ==
    IF j = 0 THEN i
    ELSE IF i = 0 THEN j
    ELSE LET cost == IF s1[i] = s2[j] THEN 0 ELSE 1
         IN  Min3(Mut_Matrix(s1, s2, i - 1, j) + 1,
                  Mut_Matrix(s1, s2, i - 1, j) + 1,
                  Mut_Matrix(s1, s2, i - 1, j - 1) + cost)

Mut_levenshtein(s1, s2) == Mut_Matrix(s1, s2, Len(s1), Len(s2))

\* AlmostEqualString._levenshtein: matrix[i][j], first row and column
\* initialised to their index, the other cells filled from their neighbours
RECURSIVE Matrix(_, _, _, _)
Matrix(s1, s2, i, j) ==
    IF j = 0 THEN i
    ELSE IF i = 0 THEN j
    ELSE LET cost == IF s1[i] = s2[j] THEN 0 ELSE 1
         IN  Min3(Matrix(s1, s2, i - 1, j) + 1,          \* deletion
                  Matrix(s1, s2, i, j - 1) + 1,          \* insertion
                  Matrix(s1, s2, i - 1, j - 1) + cost)   \* substitution

\* AlmostEqualString._levenshtein: matrix[-1][-1]
levenshtein(s1, s2) == Matrix(s1, s2, Len(s1), Len(s2))

\* AlmostEqualString(expected, max_distance)
AlmostStringStrategy(expected, max_distance) ==
    [kind |-> "AlmostEqualString", expected |-> expected, equalities |-> <<>>,
     max_distance |-> max_distance]

\* AlmostEqualString.validate: assertLessEqual(_levenshtein(value_to_test, expected), max_distance)
ValidateAlmostString(strategy, value_to_test) ==
    IF levenshtein(value_to_test, strategy.expected) <= strategy.max_distance
    THEN "pass" ELSE "AssertionError"

\* subclasses of AlmostEqual: validate only, no alter step
AlmostClasses == {"AlmostEqualString", "AlmostEqualNumber"}

Digits == {"1"}
Signs == {"-"}
IsDigit(s, i) == i <= Len(s) /\ s[i] \in Digits

\* \d* from position i: the position after the run of digits
RECURSIVE DigitRunEnd(_, _)
DigitRunEnd(s, i) == IF IsDigit(s, i) THEN DigitRunEnd(s, i + 1) ELSE i

DigitValue(c) == CASE c = "1" -> 1

\* int(s[i..k-1]), 0 for the empty run
RECURSIVE DigitsValue(_, _, _)
DigitsValue(s, i, k) ==
    IF k <= i THEN 0 ELSE 10 * DigitsValue(s, i, k - 1) + DigitValue(s[k - 1])

\* numbers are held as integers, in units of 10^-MaxNumLen
Scale == 10 ^ MaxNumLen

\* float(token) of a token sign? digits* . digits+ : sign at sg (0: none),
\* integer part [j, k), fraction [k + 1, e)
DecimalValue(s, sg, j, k, e) ==
    LET magnitude == DigitsValue(s, j, k) * Scale
                     + DigitsValue(s, k + 1, e) * 10 ^ (MaxNumLen - (e - (k + 1)))
    IN  IF sg # 0 /\ s[sg] = "-" THEN 0 - magnitude ELSE magnitude

NoToken == [found |-> FALSE, end |-> 0, value |-> 0]

\* first alternative of the pattern at position i: [-+]?\d*\.\d+
DecimalAt(s, i) ==
    LET signed == i <= Len(s) /\ s[i] \in Signs
        j == IF signed THEN i + 1 ELSE i
        k == DigitRunEnd(s, j)
    IN  IF k <= Len(s) /\ s[k] = "." /\ IsDigit(s, k + 1)
        THEN [found |-> TRUE, end |-> DigitRunEnd(s, k + 1),
              value |-> DecimalValue(s, IF signed THEN i ELSE 0, j, k, DigitRunEnd(s, k + 1))]
        ELSE NoToken

\* second alternative of the pattern at position i: \d+
IntegerAt(s, i) ==
    IF IsDigit(s, i)
    THEN [found |-> TRUE, end |-> DigitRunEnd(s, i),
          value |-> DigitsValue(s, i, DigitRunEnd(s, i)) * Scale]
    ELSE NoToken

\* re.findall(r'[-+]?\d*\.\d+|\d+', s) from position i, mapped by float: at
\* each position the first alternative is tried before the second, and the
\* scan goes on after the match or at the next position
RECURSIVE FindNumbers(_, _, _)
FindNumbers(s, i, acc) ==
    IF i > Len(s) THEN acc
    ELSE LET first == DecimalAt(s, i)
             second == IntegerAt(s, i)
         IN  IF first.found THEN FindNumbers(s, first.end, Append(acc, first.value))
             ELSE IF second.found THEN FindNumbers(s, second.end, Append(acc, second.value))
             ELSE FindNumbers(s, i + 1, acc)

\* unittest's assertAlmostEqual(first, second, places): first == second, or
\* round(abs(first - second), places) == 0
AlmostEqualValues(first, second, places) ==
    LET diff == IF first >= second THEN first - second ELSE second - first
    IN  2 * diff * 10 ^ places <= Scale

\* AlmostEqualNumber(expected, precision)
AlmostNumberStrategy(expected, precision) ==
    [kind |-> "AlmostEqualNumber", expected |-> expected, equalities |-> <<>>,
     precision |-> precision]

\* AlmostEqualNumber.validate
ValidateAlmostNumber(strategy, value_to_test) ==
    LET expected_numbers == FindNumbers(strategy.expected, 1, <<>>)
        result_numbers == FindNumbers(value_to_test, 1, <<>>)
    IN  IF Len(expected_numbers) # Len(result_numbers) THEN "AssertionError_Count"
        ELSE IF \A n \in 1..Len(expected_numbers) :
                   AlmostEqualValues(expected_numbers[n], result_numbers[n], strategy.precision)
        THEN "pass"
        ELSE "AssertionError"

\* A strategy object: its class, its expected value and, for a CombinedEquality,
\* the equalities its class closes over.
Strategy(kind, expected, equalities) ==
    [kind |-> kind, expected |-> expected, equalities |-> equalities]

NoStrategy == Strategy("none", <<>>, <<>>)

\* CombineEqualities(*equalities): defines and returns the class; nothing is checked
CombineEqualities(equalities) == "CombinedEquality"

\* Equal.alter step of a strategy object, CombinedEquality included
AlterOf(strategy, value_to_test) ==
    IF strategy.kind = "CombinedEquality"
    THEN CombinedAlter(strategy.equalities, strategy.expected, value_to_test)
    ELSE [raised |-> "none", pair |-> Alter(strategy.kind, strategy.expected, value_to_test)]

\* Equal.validate: alter, then test_case.assertEqual(expected, value_to_test)
ValidateEqual(strategy, value_to_test) ==
    LET r == AlterOf(strategy, value_to_test)
    IN  IF r.raised # "none" THEN r.raised
        ELSE IF r.pair[1] = r.pair[2] THEN "pass"
        ELSE "AssertionError"

\* strategy.validate(test_case, value_to_test, fail_message): the validate of
\* the object's class
Validate(strategy, value_to_test) ==
    CASE strategy.kind = "AlmostEqualString" -> ValidateAlmostString(strategy, value_to_test)
      [] strategy.kind = "AlmostEqualNumber" -> ValidateAlmostNumber(strategy, value_to_test)
      [] OTHER -> ValidateEqual(strategy, value_to_test)

---------------------------------------------------------------------------
(* Test cases (test_case.py) *)

Runs == 1..MaxRuns

PrintLines == {<<>>, <<"a">>}              \* what one print() of the code unit writes
Results == {"r1", "r2"}                    \* values of FunctionTestCase

\* the scripted inputs "x", "y", "x", ... of length n
Script(n) == [i \in 1..n |-> IF i % 2 = 1 THEN "x" ELSE "y"]

\* an entry of expected_output: a str, an Equality object, or something else
StrEntry(s) == [type |-> "str", value |-> s, strategy |-> NoStrategy]
EqualityEntry(st) == [type |-> "Equality", value |-> <<>>, strategy |-> st]
OtherEntry == [type |-> "other", value |-> <<>>, strategy |-> NoStrategy]

ExpectedEntries ==
    {StrEntry(<<"a">>), StrEntry(<<"A">>),
     EqualityEntry(Strategy("CaseInsensitiveStringEquality", <<"A">>, <<>>)),
     OtherEntry}

ExpectedOutputs == SeqsUpTo(ExpectedEntries, MaxLines)

\* FileTestCase.__init__.  The expected_output the test case was declared with
\* (one of ExpectedOutputs) enters the state where exec_test first reads it,
\* at line 159.
FileTestCases ==
    [kind : {"file"}, timeout_time : {"None", "1"},
     mock_input : {Script(n) : n \in 0..MaxInputs},
     expected_output : {<<>>},
     expected_result : {"r1"}]

\* FunctionTestCase.__init__
FunctionTestCases ==
    [kind : {"function"}, timeout_time : {"None", "1"},
     mock_input : {<<>>}, expected_output : {<<>>},
     expected_result : Results]

NoTestCase ==
    [kind |-> "none", timeout_time |-> "None", mock_input |-> <<>>,
     expected_output |-> <<>>, expected_result |-> "r1"]

\* Once exec_test is past its try body nothing reads the two lists of the test
\* case again (each test case of the suite is run once): they leave the state.
Spent(t) == [t EXCEPT !.mock_input = <<>>, !.expected_output = <<>>]

\* errors the loaded code unit (or result_func) can raise by itself
UnitErrors == {"ValueError", "FileNotFoundError", "KeyboardInterrupt"}

\* where control goes when the wrapped function leaves line 59 with exception e
AfterWork(e) ==
    CASE e = "none" -> "returned"
      [] e = "KeyboardInterrupt" -> "except"
      [] OTHER -> "finally"

\* run_whole_file: what leaves it when the loader or the code unit raises e
run_whole_file_raises(e) == IF e = "FileNotFoundError" THEN "NotFound" ELSE e

\* override_input: queue = deque(self._mock_input)
Mut_override_input(mock_input) == IF mock_input = <<>> THEN <<>> ELSE Tail(mock_input)

override_input(mock_input) == mock_input

\* output = fake_out.getvalue().strip().splitlines()
OutputLines(text) == SplitLines(Strip(text))

\* the loop body comparing a str entry without regard to case
Mut_CompareEntry(result, expected) ==
    CASE expected.type = "str" ->
            IF Lower(result) = Lower(expected.value) THEN "none" ELSE "AssertionError_Value"
      [] expected.type = "Equality" ->
            LET v == Validate(expected.strategy, result)
            IN  CASE v = "pass" -> "none"
                  [] v = "AssertionError" -> "AssertionError_Value"
                  [] OTHER -> v
      [] OTHER -> "TypeError"

\* one iteration of the loop of lines 161-167: "none" when the position matches
CompareEntry(result, expected) ==
    CASE expected.type = "str" ->
            IF result = expected.value THEN "none" ELSE "AssertionError_Value"
      [] expected.type = "Equality" ->
            LET v == Validate(expected.strategy, result)
            IN  CASE v = "pass" -> "none"
                  [] v = "AssertionError" -> "AssertionError_Value"
                  [] OTHER -> v
      [] OTHER -> "TypeError"

\* patch.__exit__: setattr(target, attribute, temp_original)
patch_exit(current, original) == original

---------------------------------------------------------------------------
(* Initial states *)

EqIdle ==
    /\ eq_strategy = NoStrategy
    /\ eq_actual = <<>>
    /\ eq_built = "none"
    /\ eq_pair = <<>>
    /\ eq_verdict = "none"

HarnessIdle ==
    /\ run = 0
    /\ pc = "idle"
    /\ exc = "none"
    /\ tc = NoTestCase
    /\ file_present = TRUE
    /\ queue = <<>>
    /\ reads = <<>>
    /\ fake_out = <<>>
    /\ output = <<>>
    /\ counted = FALSE
    /\ compared = 0
    /\ unit_raised = "none"
    /\ builtins_input = "input"
    /\ saved = [input |-> "unset", stdout |-> "unset"]
    /\ timer = [c \in Runs |-> "none"]
    /\ finished = [c \in Runs |-> FALSE]
    /\ pending = {}
    /\ outcome = "none"
    /\ fired_in = "never"
    /\ hits = {}

\* run_tests: json_runner runs the suite with sys.stdout patched to a StringIO,
\* html_runner and text_runner with the real one
Init ==
    /\ HarnessIdle
    /\ sys_stdout \in {"__stdout__", "runner_buf"}
    /\ before = [input |-> "input", stdout |-> sys_stdout]
    /\ EqIdle

---------------------------------------------------------------------------
(* The main thread *)

local_vars == <<queue, reads, fake_out, output>>
ghost_vars == <<counted, compared, unit_raised>>
channel_vars == <<sys_stdout, builtins_input, saved, before>>
timer_vars == <<timer, finished, fired_in>>
config_vars == <<run, tc, file_present>>

\* positions inside function(*args, **kwargs) of line 59
WorkPCs == {"enter_input", "enter_stdout", "exec", "validate", "restore",
            "exit_stdout", "exit_input", "fn"}
\* positions of inner after the wrapped function has returned or raised
CleanupPCs == {"returned", "except", "finally", "leave"}

\* unittest calls runTest of the next test case; runTest calls the decorated
\* exec_test, whose inner starts with timer = None
StartRun ==
    /\ pc = "idle"
    /\ run < MaxRuns
    /\ pending = {}
    /\ run' = run + 1
    /\ \E t \in FileTestCases \cup FunctionTestCases :
          /\ tc' = t
          /\ file_present' \in (IF t.kind = "file" THEN BOOLEAN ELSE {TRUE})
    /\ queue' = <<>>
    /\ reads' = <<>>
    /\ fake_out' = <<>>
    /\ output' = <<>>
    /\ counted' = FALSE
    /\ compared' = 0
    /\ unit_raised' = "none"
    /\ saved' = [input |-> "unset", stdout |-> "unset"]
    /\ before' = [input |-> builtins_input, stdout |-> sys_stdout]
    /\ exc' = "none"
    /\ outcome' = "none"
    /\ fired_in' = "never"
    /\ hits' = {}
    /\ pc' = "try"
    /\ UNCHANGED <<sys_stdout, builtins_input, timer, finished, pending>>

\* inner, lines 56-58: create and start the timer when timeout_time is not None
Arm ==
    /\ pc = "try"
    /\ pending = {}
    /\ timer' = IF tc.timeout_time # "None" THEN [timer EXCEPT ![run] = "waiting"] ELSE timer
    /\ pc' = IF tc.kind = "file" THEN "enter_input" ELSE "fn"
    /\ UNCHANGED <<exc, config_vars, local_vars, ghost_vars, channel_vars, finished, fired_in,
                   pending, outcome, hits>>

\* exec_test, line 154: patch('builtins.input', self.override_input()).__enter__
EnterInputPatch ==
    /\ pc = "enter_input"
    /\ pending = {}
    /\ queue' = override_input(tc.mock_input)
    /\ saved' = [saved EXCEPT !.input = builtins_input]
    /\ builtins_input' = "fake_input"
    /\ pc' = "enter_stdout"
    /\ UNCHANGED <<exc, config_vars, reads, fake_out, output, ghost_vars,
                   sys_stdout, before, timer_vars, pending, outcome, hits>>

\* exec_test, line 154: patch('sys.stdout', new=StringIO()).__enter__
EnterStdoutPatch ==
    /\ pc = "enter_stdout"
    /\ pending = {}
    /\ saved' = [saved EXCEPT !.stdout = sys_stdout]
    /\ sys_stdout' = "fake_out"
    /\ pc' = "exec"
    /\ UNCHANGED <<exc, config_vars, local_vars, ghost_vars, builtins_input, before,
                   timer_vars, pending, outcome, hits>>

\* run_whole_file, lines 118-123: the file is absent, the loader raises FileNotFoundError
LoadFails ==
    /\ pc = "exec"
    /\ ~file_present
    /\ exc' = run_whole_file_raises("FileNotFoundError")
    /\ pc' = "restore"
    /\ UNCHANGED <<config_vars, local_vars, ghost_vars, channel_vars, timer_vars,
                   pending, outcome, hits>>

\* the code unit calls input(): fake_input, lines 133-136
UnitInput ==
    /\ pc = "exec"
    /\ file_present
    /\ pending = {}
    /\ IF queue = <<>>
       THEN /\ exc' = "AssertionError_TooManyInputCalls"
            /\ pc' = "restore"
            /\ UNCHANGED <<queue, reads>>
       ELSE /\ reads' = Append(reads, Head(queue))
            /\ queue' = Tail(queue)
            /\ UNCHANGED <<exc, pc>>
    /\ UNCHANGED <<config_vars, fake_out, output, ghost_vars,
                   channel_vars, timer_vars, pending, outcome, hits>>

NewLines(text) == Cardinality({i \in 1..Len(text) : text[i] = "\n"})

\* the code unit calls print(line): written to the StringIO
UnitPrint ==
    /\ pc = "exec"
    /\ file_present
    /\ pending = {}
    /\ NewLines(fake_out) < MaxLines
    /\ \E line \in PrintLines : fake_out' = fake_out \o line \o <<"\n">>
    /\ UNCHANGED <<pc, exc, config_vars, queue, reads, output, ghost_vars,
                   channel_vars, timer_vars, pending, outcome, hits>>

\* the code unit raises; run_whole_file lets it through or replaces it (line 122)
UnitRaise ==
    /\ pc = "exec"
    /\ file_present
    /\ \E e \in UnitErrors :
          /\ unit_raised' = e
          /\ exc' = run_whole_file_raises(e)
    /\ pc' = "restore"
    /\ UNCHANGED <<config_vars, local_vars, counted, compared,
                   channel_vars, timer_vars, pending, outcome, hits>>

\* run_whole_file returns and the channels are put back before the output is read
Mut_UnitFinish ==
    /\ pc = "exec"
    /\ file_present
    /\ pending = {}
    /\ pc' = "validate"
    /\ queue' = <<>>
    /\ reads' = <<>>
    /\ tc' = [tc EXCEPT !.mock_input = <<>>]
    /\ sys_stdout' = saved.stdout
    /\ builtins_input' = saved.input
    /\ UNCHANGED <<exc, run, file_present, fake_out, output, ghost_vars, saved, before,
                   timer_vars, pending, outcome, hits>>

\* the code unit runs to its end: run_whole_file returns.  fake_input is not
\* called again: the deque and the scripted inputs leave the state.
UnitFinish ==
    /\ pc = "exec"
    /\ file_present
    /\ pending = {}
    /\ pc' = "validate"
    /\ queue' = <<>>
    /\ reads' = <<>>
    /\ tc' = [tc EXCEPT !.mock_input = <<>>]
    /\ UNCHANGED <<exc, run, file_present, fake_out, output, ghost_vars, channel_vars,
                   timer_vars, pending, outcome, hits>>

\* exec_test, lines 157-160
CheckCount ==
    /\ pc = "validate"
    /\ ~counted
    /\ pending = {}
    /\ \E declared \in ExpectedOutputs : tc' = [tc EXCEPT !.expected_output = declared]
    /\ output' = OutputLines(fake_out)
    /\ fake_out' = <<>>       \* the buffer is not read again
    /\ counted' = TRUE
    /\ IF Len(output') # Len(tc'.expected_output)
       THEN exc' = "AssertionError_LineCount" /\ pc' = "restore"
       ELSE exc' = exc /\ pc' = IF Len(output') = 0 THEN "restore" ELSE "validate"
    /\ UNCHANGED <<run, file_present, queue, reads, compared, unit_raised,
                   channel_vars, timer_vars, pending, outcome, hits>>

\* exec_test, lines 161-167: one iteration of the zip loop
Compare ==
    /\ pc = "validate"
    /\ counted
    /\ pending = {}
    /\ LET i == compared + 1
           r == CompareEntry(output[i], tc.expected_output[i])
       IN  /\ compared' = i
           /\ exc' = r
           /\ pc' = IF r # "none" \/ i = Len(output) THEN "restore" ELSE "validate"
    /\ UNCHANGED <<config_vars, queue, reads, fake_out, output, counted, unit_raised,
                   channel_vars, timer_vars, pending, outcome, hits>>

\* exec_test, lines 168-169
InnerFinally ==
    /\ pc = "restore"
    /\ sys_stdout' = "__stdout__"
    /\ pc' = "exit_stdout"
    /\ tc' = Spent(tc)
    /\ queue' = <<>>
    /\ reads' = <<>>
    /\ fake_out' = <<>>
    /\ output' = <<>>
    /\ UNCHANGED <<exc, run, file_present, ghost_vars, builtins_input, saved, before,
                   timer_vars, pending, outcome, hits>>

\* leaving the with statement of line 154: __exit__ of the sys.stdout patch
ExitStdoutPatch ==
    /\ pc = "exit_stdout"
    /\ pending = {}
    /\ sys_stdout' = patch_exit(sys_stdout, saved.stdout)
    /\ pc' = "exit_input"
    /\ UNCHANGED <<exc, config_vars, local_vars, ghost_vars, builtins_input, saved, before,
                   timer_vars, pending, outcome, hits>>

\* ... then __exit__ of the builtins.input patch; exec_test is left
ExitInputPatch ==
    /\ pc = "exit_input"
    /\ pending = {}
    /\ builtins_input' = patch_exit(builtins_input, saved.input)
    /\ pc' = AfterWork(exc)
    /\ UNCHANGED <<exc, config_vars, local_vars, ghost_vars, sys_stdout, saved, before,
                   timer_vars, pending, outcome, hits>>

\* FunctionTestCase.runTest.exec_test, line 199: result_func returns v
FnReturn ==
    /\ pc = "fn"
    /\ pending = {}
    /\ \E v \in Results :
          exc' = IF v = tc.expected_result THEN "none" ELSE "AssertionError_Value"
    /\ pc' = AfterWork(exc')
    /\ UNCHANGED <<config_vars, local_vars, ghost_vars, channel_vars, timer_vars,
                   pending, outcome, hits>>

\* FunctionTestCase.runTest.exec_test, line 199: result_func raises
FnRaise ==
    /\ pc = "fn"
    /\ \E e \in UnitErrors :
          /\ unit_raised' = e
          /\ exc' = e
    /\ pc' = AfterWork(exc')
    /\ UNCHANGED <<config_vars, local_vars, counted, compared,
                   channel_vars, timer_vars, pending, outcome, hits>>

\* inner, line 59: the call has returned, control leaves the try body
Proceed ==
    /\ pc = "returned"
    /\ pending = {}
    /\ pc' = "finally"
    /\ UNCHANGED <<exc, config_vars, local_vars, ghost_vars, channel_vars, timer_vars,
                   pending, outcome, hits>>

\* inner, lines 60-61
Except ==
    /\ pc = "except"
    /\ pending = {}
    /\ exc' = "TimeoutError"
    /\ pc' = "finally"
    /\ UNCHANGED <<config_vars, local_vars, ghost_vars, channel_vars, timer_vars,
                   pending, outcome, hits>>

\* Timer.cancel(): sets the finished event.  A timer thread still in
\* finished.wait() wakes up, finds the event set and ends without calling its
\* function; one that is already past `if not self.finished.is_set()` goes on.
cancel(state) == IF state = "waiting" THEN "done" ELSE state

\* inner, lines 62-64
Cancel ==
    /\ pc = "finally"
    /\ timer[run] # "none"
    /\ pending = {}
    /\ finished' = [finished EXCEPT ![run] = TRUE]
    /\ timer' = [timer EXCEPT ![run] = cancel(timer[run])]
    /\ pc' = "leave"
    /\ UNCHANGED <<exc, config_vars, local_vars, ghost_vars, channel_vars, fired_in,
                   pending, outcome, hits>>

\* inner ends: it returns, or the exception in flight leaves it
Exit ==
    /\ \/ pc = "finally" /\ timer[run] = "none"
       \/ pc = "leave"
    /\ outcome' = IF exc = "none" THEN "returned" ELSE exc
    /\ exc' = "none"
    /\ pc' = "idle"
    /\ UNCHANGED <<config_vars, local_vars, ghost_vars, channel_vars, timer_vars,
                   pending, hits>>

\* The main thread finds the signal flag tripped at a check point (the entry of
\* a Python function, the return of a call) and the default SIGINT handler
\* raises KeyboardInterrupt there.  A raise and the straight-line code of a
\* finally clause have no check point.  Where control goes from position p:
DeliverTo(p) ==
    CASE p \in {"try", "enter_input", "fn", "returned", "exit_input"} -> "except"
      [] p \in {"enter_stdout", "exit_stdout"} -> "exit_input"
      [] p \in {"exec", "validate"} -> "restore"
      [] p = "except" -> "finally"
      [] p \in {"finally", "leave"} -> "leave"
      [] p = "idle" -> "aborted"

Deliver ==
    /\ pending # {}
    /\ \/ pc \in {"idle", "try", "enter_input", "enter_stdout", "exec", "validate",
                  "exit_stdout", "exit_input", "fn", "returned", "except", "leave"}
       \/ pc = "finally" /\ timer[run] # "none"
    /\ hits' = hits \cup {IF c = run THEN "own" ELSE "stale" : c \in pending}
    /\ pending' = {}
    /\ exc' = IF pc = "idle" THEN exc ELSE "KeyboardInterrupt"
    /\ pc' = DeliverTo(pc)
    /\ IF pc \in {"exec", "validate"}
       THEN UNCHANGED <<tc, local_vars>>
       ELSE /\ tc' = Spent(tc)
            /\ queue' = <<>>
            /\ reads' = <<>>
            /\ fake_out' = <<>>
            /\ output' = <<>>
    /\ UNCHANGED <<run, file_present, ghost_vars, channel_vars, timer_vars, outcome>>

---------------------------------------------------------------------------
(* The timer threads: threading.Timer.run *)

\* finished.wait(interval) timed out and `if not self.finished.is_set()` passed
TimerExpire(c) ==
    /\ timer[c] = "waiting"
    /\ ~finished[c]
    /\ timer' = [timer EXCEPT ![c] = "passed"]
    /\ UNCHANGED <<pc, exc, config_vars, local_vars, ghost_vars, channel_vars, finished,
                   fired_in, pending, outcome, hits>>

\* where the main thread is, as far as the guarded call of this run is concerned
Phase(p) ==
    CASE p = "try" -> "before"
      [] p \in WorkPCs -> "work"
      [] p \in CleanupPCs -> "cleanup"
      [] OTHER -> "after"

\* self.function(): the lambda of line 57 calls _thread.interrupt_main()
TimerFire(c) ==
    /\ timer[c] = "passed"
    /\ pending' = pending \cup {c}
    /\ timer' = [timer EXCEPT ![c] = "done"]
    /\ finished' = [finished EXCEPT ![c] = TRUE]
    /\ fired_in' = IF c = run THEN Phase(pc) ELSE fired_in
    /\ UNCHANGED <<pc, exc, config_vars, local_vars, ghost_vars, channel_vars, outcome, hits>>

MainStep ==
    \/ StartRun \/ Arm
    \/ EnterInputPatch \/ EnterStdoutPatch
    \/ LoadFails \/ UnitInput \/ UnitPrint \/ UnitRaise \/ UnitFinish
    \/ CheckCount \/ Compare
    \/ InnerFinally \/ ExitStdoutPatch \/ ExitInputPatch
    \/ FnReturn \/ FnRaise
    \/ Proceed \/ Except \/ Cancel \/ Exit
    \/ Deliver

TimerStep == \E c \in Runs : TimerExpire(c) \/ TimerFire(c)

Next == (MainStep \/ TimerStep) /\ UNCHANGED eq_vars

Spec == Init /\ [][Next]_vars

---------------------------------------------------------------------------
(* Claims about the timeout guard and the execution harness *)

\* C1: when the deadline timer of a bounded guarded call fires while the
\* wrapped work has not returned, the guarded call ends by raising TimeoutError.
C1_DeadlineEndsInTimeoutError ==
    (outcome # "none" /\ tc.timeout_time # "None" /\ fired_in = "work") =>
        outcome = "TimeoutError"

\* the timer fired while result_func was running, result_func then raised
\* ValueError, and the guarded call ended with a bare KeyboardInterrupt
C1_Witness ==
    /\ outcome = "KeyboardInterrupt"
    /\ fired_in = "work"
    /\ unit_raised = "ValueError"
    /\ hits = {"own"}

\* C2: once a guarded call has returned, no timer armed by it (or by an earlier
\* call) is still able to fire.
C2_NoTimerArmedAfterReturn ==
    pc = "idle" => \A c \in 1..run : timer[c] \notin {"waiting", "passed"}

\* the call returned normally and its timer called interrupt_main afterwards
C2_Witness ==
    /\ pc = "idle"
    /\ outcome = "returned"
    /\ fired_in = "after"
    /\ run \in pending

\* C3: a guarded call with no timer is never interrupted by the timer of an
\* earlier call, and so never ends in TimeoutError because of it.
C3_UnboundedCallNotCancelled ==
    tc.timeout_time = "None" =>
        /\ "stale" \notin hits
        /\ outcome = "TimeoutError" => unit_raised = "KeyboardInterrupt"

\* a call without a deadline ended in TimeoutError, interrupted by the timer of
\* the call before it
C3_Witness ==
    /\ tc.timeout_time = "None"
    /\ outcome = "TimeoutError"
    /\ hits = {"stale"}
    /\ unit_raised = "none"

\* C4: after FileTestCase.runTest has ended, builtins.input and sys.stdout are
\* the objects they were right before the run started.
C4_ChannelsRestored ==
    (pc = "idle" /\ tc.kind = "file") =>
        /\ sys_stdout = before.stdout
        /\ builtins_input = before.input

\* under json_runner a run that timed out left sys.stdout bound to
\* sys.__stdout__ instead of the runner's buffer
C4_Witness ==
    /\ pc = "idle"
    /\ tc.kind = "file"
    /\ outcome = "TimeoutError"
    /\ before.stdout = "runner_buf"
    /\ sys_stdout = "__stdout__"
    /\ builtins_input = "input"

\* a position matches: literal equality for a string entry, the entry's
\* validate for an Equality entry
Matches(result, expected) ==
    \/ expected.type = "str" /\ result = expected.value
    \/ expected.type = "Equality" /\ Validate(expected.strategy, result) = "pass"

\* C5: a line count that differs from the length of expected_output fails the
\* run with the line-count AssertionError before any position is compared;
\* with equal counts the positions are compared in order, the first position
\* that does not match fails the run and ends the comparisons, and validation
\* passes iff every position matches.
C5_ValidationOrder ==
    /\ (counted /\ pc \in {"validate", "restore"}) =>
          LET expected_output == tc.expected_output
              n == Len(output)
          IN  IF n # Len(expected_output)
              THEN /\ pc = "restore"
                   /\ exc = "AssertionError_LineCount"
                   /\ compared = 0
              ELSE /\ compared <= n
                   /\ \A i \in 1..(compared - 1) : Matches(output[i], expected_output[i])
                   /\ pc = "validate" =>
                         \A i \in 1..compared : Matches(output[i], expected_output[i])
                   /\ (pc = "restore" /\ exc # "KeyboardInterrupt") =>
                         /\ exc # "AssertionError_LineCount"
                         /\ exc = "none" <=>
                               /\ compared = n
                               /\ \A i \in 1..n : Matches(output[i], expected_output[i])
                         /\ exc # "none" =>
                               ~Matches(output[compared], expected_output[compared])
    /\ (tc.kind = "file" /\ outcome = "returned") => counted
    /\ outcome = "AssertionError_LineCount" => (counted /\ compared = 0)
    /\ (tc.kind = "file" /\ outcome \in {"AssertionError_Value", "TypeError"}) =>
          (counted /\ compared >= 1)

\* two lines against two entries: the first position fails, the second is not
\* compared
C5_Witness ==
    /\ pc = "restore"
    /\ Len(output) = 2
    /\ Len(tc.expected_output) = 2
    /\ compared = 1
    /\ exc = "AssertionError_Value"
    /\ Matches(output[2], tc.expected_output[2])

\* C6: fake_input hands out the strings of mock_input one per call in their
\* declared order, the call after the last string raises the "Too many input
\* calls" AssertionError, and the test case's own list is left untouched.
C6_ScriptedInputInOrder ==
    /\ pc \in {"enter_stdout", "exec"} => reads \o queue = tc.mock_input
    /\ (pc = "restore" /\ exc = "AssertionError_TooManyInputCalls") =>
          /\ queue = <<>>
          /\ reads = tc.mock_input
    /\ outcome = "AssertionError_TooManyInputCalls" => tc.kind = "file"

\* a script of two strings: both were handed out and the third call raised
C6_Witness ==
    /\ pc = "restore"
    /\ exc = "AssertionError_TooManyInputCalls"
    /\ reads = <<"x", "y">>
    /\ tc.mock_input = <<"x", "y">>

\* C7: an error raised by the code unit is the outcome as raised; NotFound is
\* the outcome only when the file is absent, TimeoutError only when a deadline
\* fired.
C7_UnitErrorIsTheOutcome ==
    (tc.kind = "file" /\ outcome # "none") =>
        /\ (unit_raised # "none" /\ hits = {}) => outcome = unit_raised
        /\ outcome = "NotFound" => ~file_present
        /\ outcome = "TimeoutError" => hits # {}

\* the file is there, the code unit raised FileNotFoundError, no deadline: the
\* run reports that the file was not found
C7_Witness ==
    /\ tc.kind = "file"
    /\ outcome = "NotFound"
    /\ file_present
    /\ unit_raised = "FileNotFoundError"
    /\ tc.timeout_time = "None"
    /\ hits = {}

\* a step of the main thread that compares captured output with
\* expected_output: the line-count check or one per-line comparison
Comparing == (~counted /\ counted') \/ compared' = compared + 1

\* C13 as claimed: no comparison of captured output with expected_output is
\* made while the virtualization of the run is installed.
C13_ComparesAfterRestore ==
    [][Comparing => (builtins_input = before.input /\ sys_stdout = before.stdout)]_vars

\* C13, amended: the order is Execute, Validate, Restore: every comparison of
\* a FileTestCase run is made while builtins.input is still fake_input and
\* sys.stdout is still the capture buffer, and leaves them installed.
C13_ComparesWhileVirtualized ==
    [][Comparing => /\ builtins_input = "fake_input" /\ sys_stdout = "fake_out"
                    /\ builtins_input' = "fake_input" /\ sys_stdout' = "fake_out"]_vars

\* the line count and one position have been compared, the channels are still
\* the scripted input and the capture buffer
C13_Witness ==
    /\ counted
    /\ compared = 1
    /\ pc = "validate"
    /\ builtins_input = "fake_input"
    /\ sys_stdout = "fake_out"

\* C14: a FileTestCase run that ends in TimeoutError has compared nothing of
\* its captured output with expected_output; a run whose code unit had finished
\* (only such a run compares anything) is not reported as TimeoutError.
C14_TimeoutMeansNotValidated ==
    (tc.kind = "file" /\ outcome = "TimeoutError" /\ unit_raised = "none") =>
        (~counted /\ compared = 0)

\* the code unit finished, the line count and one position were compared, then
\* the run's own timer interrupted the validation: TimeoutError
C14_Witness ==
    /\ tc.kind = "file"
    /\ outcome = "TimeoutError"
    /\ hits = {"own"}
    /\ unit_raised = "none"
    /\ counted
    /\ compared = 1

\* what the wrapped work of a run can end with when it raises
WorkErrors ==
    {run_whole_file_raises(e) : e \in UnitErrors \ {"KeyboardInterrupt"}}
    \cup (UnitErrors \ {"KeyboardInterrupt"})
    \cup {"AssertionError_TooManyInputCalls", "AssertionError_LineCount",
          "AssertionError_Value", "TypeError"}

\* C15: a guarded call ends by returning, with the error raised by the work,
\* or with TimeoutError; the KeyboardInterrupt of the deadline timer never
\* leaves the guarded call.
C15_NoRawInterruptEscapes ==
    outcome # "none" => outcome \in {"returned", "TimeoutError"} \cup WorkErrors

\* the work has returned normally, control is in the finally clause before
\* timer.cancel() and the call's own timer has just called interrupt_main: the
\* KeyboardInterrupt is raised on entry to cancel(), outside the try body
C15_Witness ==
    /\ pc = "finally"
    /\ exc = "none"
    /\ timer[run] = "done"
    /\ run \in pending
    /\ fired_in = "cleanup"

---------------------------------------------------------------------------
(* Equality strategies on their own: build a strategy, validate one value *)

\* the strategy object is built: SomeEquality(expected), or
\* CombineEqualities(*equalities)(expected)
EqBuild ==
    /\ eq_built = "none"
    /\ eq_strategy.kind # "none"
    /\ eq_built' = IF eq_strategy.kind = "CombinedEquality"
                   THEN CombineEqualities(eq_strategy.equalities)
                   ELSE eq_strategy.kind
    /\ UNCHANGED <<eq_strategy, eq_actual, eq_pair, eq_verdict>>

\* strategy.validate(test_case, value_to_test, fail_message)
EqValidate ==
    /\ eq_built \notin {"none", "TypeError"}
    /\ eq_verdict = "none"
    /\ eq_pair' = IF eq_strategy.kind \in AlmostClasses THEN <<>>
                  ELSE AlterOf(eq_strategy, eq_actual).pair
    /\ eq_verdict' = Validate(eq_strategy, eq_actual)
    /\ UNCHANGED <<eq_strategy, eq_actual, eq_built>>

NextEq == (EqBuild \/ EqValidate) /\ UNCHANGED harness_vars

HarnessUnused ==
    /\ HarnessIdle
    /\ sys_stdout = "__stdout__"
    /\ before = [input |-> "input", stdout |-> "__stdout__"]

InitContains ==
    /\ HarnessUnused
    /\ eq_strategy \in {Strategy("ContainsEquality", e, <<>>) : e \in Strings(MaxLen)}
    /\ eq_actual \in Strings(MaxLen)
    /\ eq_built = "none"
    /\ eq_pair = <<>>
    /\ eq_verdict = "none"

SpecContains == InitContains /\ [][NextEq]_vars

InitCombine ==
    /\ HarnessUnused
    /\ eq_strategy \in {Strategy("CombinedEquality", e, steps) :
                          e \in Strings(MaxCombLen), steps \in SeqsUpTo(StepKinds, MaxSteps)}
    /\ eq_actual \in Strings(MaxCombLen)
    /\ eq_built = "none"
    /\ eq_pair = <<>>
    /\ eq_verdict = "none"

SpecCombine == InitCombine /\ [][NextEq]_vars

---------------------------------------------------------------------------
(* Claims about the equality strategies *)

\* s occurs in t as a contiguous substring
Occurs(s, t) == \E i \in 1..(Len(t) + 1) : \E j \in (i - 1)..Len(t) : SubSeq(t, i, j) = s

\* C8: ContainsEquality(expected).validate(actual) passes if and only if
\* expected occurs verbatim as a contiguous substring of actual (always, when
\* expected is empty); when it does not occur, the expected side is left as it
\* is and the fragment put in place of actual differs from expected, so a
\* partial overlap never passes.
C8_ContainsPassesIffOccurs ==
    eq_verdict # "none" =>
        /\ eq_verdict \in {"pass", "AssertionError"}
        /\ (eq_verdict = "pass") <=> Occurs(eq_strategy.expected, eq_actual)
        /\ eq_strategy.expected = <<>> => eq_verdict = "pass"
        /\ ~Occurs(eq_strategy.expected, eq_actual) =>
              /\ eq_pair[1] = eq_strategy.expected
              /\ eq_pair[2] # eq_strategy.expected
              /\ Occurs(eq_pair[2], eq_actual)

\* a nonempty partial overlap was found and the check failed
C8_Witness ==
    /\ eq_verdict = "AssertionError"
    /\ eq_strategy.expected = <<"a", "A">>
    /\ eq_actual = <<"A", "a", " ">>
    /\ eq_pair[2] = <<"A">>

\* the steps applied one after the other, s1 first
RECURSIVE InOrder(_, _, _)
InOrder(steps, expected, actual) ==
    IF steps = <<>> THEN <<expected, actual>>
    ELSE LET before_last == InOrder(SubSeq(steps, 1, Len(steps) - 1), expected, actual)
         IN  Alter(steps[Len(steps)], before_last[1], before_last[2])

AllEqual(steps) == \A i \in 1..Len(steps) : IsEqual(steps[i])

\* C9: a strategy built by CombineEqualities(s1, ..., sn) from
\* transformation-capable steps alters (expected, actual) by s1, then s2 on
\* the result, ... in the declared order, and validate passes iff the final
\* pair holds two equal strings.
C9_StepsInDeclaredOrder ==
    (eq_verdict # "none" /\ AllEqual(eq_strategy.equalities)) =>
        LET final == InOrder(eq_strategy.equalities, eq_strategy.expected, eq_actual)
        IN  /\ eq_pair = final
            /\ eq_verdict = IF final[1] = final[2] THEN "pass" ELSE "AssertionError"

\* case-insensitive then whitespace-insensitive: "A" against " a" passes
C9_Witness ==
    /\ eq_verdict = "pass"
    /\ eq_strategy.equalities = <<"CaseInsensitiveStringEquality",
                                  "WhiteSpaceInsensitiveEquality">>
    /\ eq_strategy.expected = <<"A">>
    /\ eq_actual = <<" ", "a">>

FirstNotEqual(steps) == CHOOSE i \in 1..Len(steps) :
    ~IsEqual(steps[i]) /\ \A k \in 1..(i - 1) : IsEqual(steps[k])

\* C10 as claimed: a list with a step that is not transformation-capable makes
\* the building of the combined strategy fail with the configuration error.
C10_FailsWhenBuilt ==
    (eq_built # "none" /\ ~AllEqual(eq_strategy.equalities)) => eq_built = "TypeError"

\* C10, amended: building never fails; every validate of a combined strategy
\* with a step that is not transformation-capable raises the configuration
\* error (TypeError), wherever the step stands in the list, after the steps
\* listed before it have been applied to the pair; a list of
\* transformation-capable steps never raises it.
C10_FailsOnValidate ==
    /\ eq_built \in {"none", "CombinedEquality"}
    /\ eq_verdict # "none" =>
          IF AllEqual(eq_strategy.equalities)
          THEN eq_verdict # "TypeError"
          ELSE /\ eq_verdict = "TypeError"
               /\ eq_pair = InOrder(SubSeq(eq_strategy.equalities, 1,
                                           FirstNotEqual(eq_strategy.equalities) - 1),
                                    eq_strategy.expected, eq_actual)

\* the offending step stands second: the first step's lower-casing was applied
\* before the error
C10_Witness ==
    /\ eq_verdict = "TypeError"
    /\ eq_strategy.equalities = <<"CaseInsensitiveStringEquality", "AlmostEqualString">>
    /\ eq_strategy.expected = <<"A">>
    /\ eq_pair[1] = <<"a">>

---------------------------------------------------------------------------
(* AlmostEqualString *)

LevChars == {"A", "a"}
LevStrings == SeqsUpTo(LevChars, MaxLevLen)

InitAlmostString ==
    /\ HarnessUnused
    /\ eq_strategy \in {AlmostStringStrategy(e, d) : e \in LevStrings, d \in 0..MaxDistance}
    /\ eq_actual \in LevStrings
    /\ eq_built = "none"
    /\ eq_pair = <<>>
    /\ eq_verdict = "none"

SpecAlmostString == InitAlmostString /\ [][NextEq]_vars

\* the strings one single-character deletion, substitution or insertion away
\* from s
Edits(s) ==
    {SubSeq(s, 1, i - 1) \o SubSeq(s, i + 1, Len(s)) : i \in 1..Len(s)}
    \cup {[s EXCEPT ![i] = c] : i \in 1..Len(s), c \in LevChars}
    \cup {SubSeq(s, 1, i) \o <<c>> \o SubSeq(s, i + 1, Len(s)) : i \in 0..Len(s), c \in LevChars}

AbsDiff(x, y) == IF x >= y THEN x - y ELSE y - x

\* the least number of edits after which b is reached from the strings of
\* frontier, themselves k edits away from the start; an edit changes the length
\* by at most one, so a string whose length is further from Len(b) than the
\* edits left cannot lead to b
RECURSIVE Search(_, _, _, _)
Search(frontier, b, k, left) ==
    IF b \in frontier THEN k
    ELSE Search({t \in UNION {Edits(s) : s \in frontier} : AbsDiff(Len(t), Len(b)) <= left - 1},
                b, k + 1, left - 1)

\* minimum number of single-character edits turning a into b; it is never more
\* than the longer of the two lengths
EditDistance(a, b) ==
    Search({a}, b, 0, IF Len(a) >= Len(b) THEN Len(a) ELSE Len(b))

\* C11: _levenshtein(a, a) = 0, _levenshtein(a, b) = _levenshtein(b, a),
\* _levenshtein(a, "") = len(a), _levenshtein(a, b) is the minimum number of
\* single-character insertions, deletions and substitutions turning a into b,
\* and AlmostEqualString(expected, max_distance).validate(actual) passes iff
\* that distance between actual and expected is at most max_distance.
C11_LevenshteinIsEditDistance ==
    eq_verdict # "none" =>
        LET a == eq_actual
            b == eq_strategy.expected
        IN  /\ levenshtein(a, a) = 0
            /\ levenshtein(b, b) = 0
            /\ levenshtein(a, b) = levenshtein(b, a)
            /\ levenshtein(a, <<>>) = Len(a)
            /\ levenshtein(<<>>, b) = Len(b)
            /\ levenshtein(a, b) = EditDistance(a, b)
            /\ eq_verdict = IF EditDistance(a, b) <= eq_strategy.max_distance
                            THEN "pass" ELSE "AssertionError"

\* "aAa" against "Aa" with max_distance 0: one deletion apart, the check fails
C11_Witness ==
    /\ eq_verdict = "AssertionError"
    /\ eq_actual = <<"a", "A", "a">>
    /\ eq_strategy.expected = <<"A", "a">>
    /\ eq_strategy.max_distance = 0
    /\ levenshtein(eq_actual, eq_strategy.expected) = 1

---------------------------------------------------------------------------
(* AlmostEqualNumber *)

NumChars == Signs \cup Digits \cup {".", "x"}
NumStrings == SeqsUpTo(NumChars, MaxNumLen)
Precisions == {0, 1}

InitAlmostNumber ==
    /\ HarnessUnused
    /\ eq_strategy \in {AlmostNumberStrategy(e, p) : e \in NumStrings, p \in Precisions}
    /\ eq_actual \in NumStrings
    /\ eq_built = "none"
    /\ eq_pair = <<>>
    /\ eq_verdict = "none"

SpecAlmostNumber == InitAlmostNumber /\ [][NextEq]_vars

\* a token whose leading sign belongs to it for an integer as for a decimal
\* (a fraction with no integer digits is taken as a token, as the pattern of
\* the code takes it)
SignedTokenAt(s, i) ==
    LET signed == i <= Len(s) /\ s[i] \in Signs
        j == IF signed THEN i + 1 ELSE i
        decimal == DecimalAt(s, i)
    IN  IF decimal.found THEN decimal
        ELSE IF IsDigit(s, j)
        THEN [found |-> TRUE, end |-> DigitRunEnd(s, j),
              value |-> (IF signed /\ s[i] = "-" THEN 0 - 1 ELSE 1)
                        * DigitsValue(s, j, DigitRunEnd(s, j)) * Scale]
        ELSE NoToken

RECURSIVE SignedNumbers(_, _, _)
SignedNumbers(s, i, acc) ==
    IF i > Len(s) THEN acc
    ELSE LET token == SignedTokenAt(s, i)
         IN  IF token.found THEN SignedNumbers(s, token.end, Append(acc, token.value))
             ELSE SignedNumbers(s, i + 1, acc)

\* C12: AlmostEqualNumber takes from expected and from actual, in order, every
\* numeric token, a leading sign belonging to the token for integers as for
\* decimals; it fails with the count-mismatch AssertionError when the two
\* counts differ, and otherwise passes iff every pair of corresponding signed
\* values is equal after rounding to the precision.
C12_SignedValuesDecide ==
    eq_verdict # "none" =>
        LET expected_numbers == SignedNumbers(eq_strategy.expected, 1, <<>>)
            result_numbers == SignedNumbers(eq_actual, 1, <<>>)
        IN  eq_verdict =
               IF Len(expected_numbers) # Len(result_numbers) THEN "AssertionError_Count"
               ELSE IF \A n \in 1..Len(expected_numbers) :
                          AlmostEqualValues(expected_numbers[n], result_numbers[n],
                                            eq_strategy.precision)
               THEN "pass"
               ELSE "AssertionError"

\* expected "-1" against actual "1" passes
C12_Witness ==
    /\ eq_verdict = "pass"
    /\ eq_strategy.expected = <<"-", "1">>
    /\ eq_actual = <<"1">>
    /\ eq_strategy.precision = 1

====
